---- MODULE Spec2Model ----
(***************************************************************************)
(* Conversation memory of the multi-agent orchestrator                     *)
(* (src/Day10/conversation_memory.py): ConversationMemory instances that   *)
(* share one JSON file keyed by user identity.  Every instance is used by  *)
(* one caller at a time; different instances (different processes) run     *)
(* concurrently and interleave at the file operations of _save_memory.     *)
(***************************************************************************)
EXTENDS Integers, Sequences, FiniteSets, TLC

\* ------------------------------------------------------------------ bounds

\* Total number of add_interaction calls in one behaviour (the clock that
\* stamps the interactions stops there).
MaxAdds == 2
\* Largest n given to get_recent_history / get_context_string.
MaxN == 2
\* Largest number of agent names in the agents_needed list, and of keys in
\* the subtasks dict, of a decomposition.
MaxAgentsNeeded == 2
\* Largest max_iterations given to Agent.execute.
MaxIter == 2
\* Largest number of tool calls in one assistant message.
MaxToolCalls == 2
\* Largest number of characters in the content of the classification call.
MaxContentLen == 4

\* ------------------------------------------------------- program constants

\* interaction['response'][:100]
ExcerptLen == 100

\* -------------------------------------------------------------- input sets

Insts == {"m1", "m2"}
Users == {"u1", "u2"}
Queries == {"q1", "q2"}
Responses == {<<"r", "1">>}
Agents == {"CFO"}
NValues == (0 - 1) .. MaxN

Caller == "m1"

NoInst == "-"
NoUser == "-"

VARIABLES
    file,        \* the memory file: [state, data]
    user,        \* user[i]: self.user_id of instance i (NoUser: not constructed)
    pc,          \* pc[i]: position of instance i
    op,          \* op[i]: the operation of instance i that is inside _save_memory
    short_term,  \* short_term[i]: self.short_term (the session)
    long_term,   \* long_term[i]: self.long_term (the history)
    data,        \* data[i]: the local dict of _save_memory
    clock,       \* datetime.now(), counted in add_interaction calls
    last,        \* the operation that ended in the last step
    ret,         \* what the last getter returned
    lastGet,     \* the previous get_recent_history call
    overlap,     \* the live instances ran add_interaction at the same time
    cleared,     \* identities for which clear_all was called
    stored,      \* stored[u]: the list the last completed _save_memory of an
                 \* instance of u wrote for u
    \* MultiAgentOrchestrator.execute (src/Day9/orchestrator.py)
    o_pc,          \* position inside execute
    task,          \* the task given to execute
    reply,         \* what the decomposition call gave
    decomposition, \* the value decompose_task returned
    subtasks_left, \* the items of subtasks.items() execute_parallel has not reached
    results,       \* the results dict of execute_parallel
    ran,           \* ran[a]: how the execute of agent a ended, in call order
    synth_calls,   \* the results dicts given to the synthesis call, one per call
    o_result,      \* how execute ended: the value returned or the fault raised
    \* CFOAgent.execute / CROAgent.execute (src/Day7/cfo_agent.py, src/Day8/cro_agent.py)
    a_pc,            \* position inside Agent.execute
    a_task,          \* the task argument
    max_iterations,  \* the max_iterations argument
    iteration,       \* the loop variable of "for iteration in range(max_iterations)"
    messages,        \* the conversation given to the reasoning call
    execution_trace, \* the trace of the tool calls made
    tool_calls,      \* the tool calls of the current assistant message not yet handled
    assistant_message, \* the message the last reasoning call gave
    llm_calls,       \* number of reasoning calls made
    tool_steps,      \* number of reasoning calls that requested tool calls
    a_result,        \* how Agent.execute ended
    \* AgentRouter (src/Day8/agent_router.py)
    r_pc,        \* position inside AgentRouter.execute
    r_query,     \* the query given to it
    r_reply,     \* what the classification call gave
    agent_type,  \* how route ended: the tag returned or the fault raised
    r_result,    \* how AgentRouter.execute ended
    \* SmartOrchestrator (src/Day10/smart_orchestrator.py)
    s_pc,          \* position inside SmartOrchestrator.execute
    s_task,        \* the task argument
    s_use_context, \* the use_context argument
    enhanced_task, \* the task given to the execute of the parent class
    s_result,      \* how SmartOrchestrator.execute ended
    s_loaded,      \* number of interactions the constructor loaded
    s_returned,    \* number of execute calls of the instance that returned
    s_any_raised,  \* an execute call of the instance has raised
    \* process_query (src/backend/backend.py)
    b_pc,        \* position inside process_query
    b_request,   \* the request: query and user_id
    b_response   \* what the caller of the service received last

memVars == <<file, user, pc, op, short_term, long_term, data, clock, last, ret,
             lastGet, overlap, cleared, stored>>

orchVars == <<o_pc, task, reply, decomposition, subtasks_left, results, ran,
              synth_calls, o_result>>

agentVars == <<a_pc, a_task, max_iterations, iteration, messages, execution_trace,
               tool_calls, assistant_message, llm_calls, tool_steps, a_result>>

routerVars == <<r_pc, r_query, r_reply, agent_type, r_result>>

smartVars == <<s_pc, s_task, s_use_context, enhanced_task, s_result, s_loaded,
               s_returned, s_any_raised>>

backendVars == <<b_pc, b_request, b_response>>

\* The state of the callers of the orchestrator.
callerVars == <<smartVars, backendVars>>

vars == <<memVars, orchVars, agentVars, routerVars, smartVars, backendVars>>

\* ------------------------------------------------------------ dictionaries

EmptyDict == [k \in {} |-> <<>>]

DictGet(d, k, default) == IF k \in DOMAIN d THEN d[k] ELSE default

DictSet(d, k, v) == [x \in (DOMAIN d) \cup {k} |-> IF x = k THEN v ELSE d[x]]

\* --------------------------------------------------------------- the file

AbsentFile == [state |-> "absent", data |-> EmptyDict]
\* An existing file whose content json.load rejects (empty, truncated, mixed).
CorruptFile == [state |-> "corrupt", data |-> EmptyDict]
OkFile(d) == [state |-> "ok", data |-> d]

Min(a, b) == IF a < b THEN a ELSE b
Max(a, b) == IF a > b THEN a ELSE b


\* ---------------------------------------------------------- pure functions

\* Python's s[k:] on a list.
PySliceFrom(s, k) ==
    LET start == IF k < 0 THEN Max(Len(s) + k, 0) ELSE Min(k, Len(s))
    IN  SubSeq(s, start + 1, Len(s))

\* Python's s[:k] on a string, k >= 0.
PySliceTo(s, k) == SubSeq(s, 1, Min(k, Len(s)))

\* _load_memory without its try/except: json.load on an unreadable file raises.
_load_memory_uncaught(f, u) ==
    IF f.state = "absent" THEN [raised |-> FALSE, value |-> <<>>]
    ELSE IF f.state = "corrupt" THEN [raised |-> TRUE, value |-> <<>>]
    ELSE [raised |-> FALSE, value |-> DictGet(f.data, u, <<>>)]

\* _load_memory: the stored list of the identity; [] when the file does not
\* exist, when json.load or data.get raises, or when the identity has no key.
_load_memory(f, u) ==
    IF f.state = "absent" THEN [raised |-> FALSE, value |-> <<>>]
    ELSE IF f.state = "corrupt" THEN [raised |-> FALSE, value |-> <<>>]
    ELSE [raised |-> FALSE, value |-> DictGet(f.data, u, <<>>)]

\* get_recent_history: self.short_term[-n:] if len(self.short_term) > 0 else []
get_recent_history(s, n) == IF Len(s) > 0 THEN PySliceFrom(s, 0 - n) ELSE <<>>

Sentinel == "No previous conversation history."
Header == "Recent conversation history:\n"

\* The two lines get_context_string adds for one interaction, as a sequence of
\* pieces: literals, the query, the agent label and the characters of the
\* response excerpt.
RenderInteraction(x) ==
    <<"\nUser: ", x.query, "\n", "Assistant (", x.agent, "): ">>
        \o PySliceTo(x.response, ExcerptLen) \o <<"...\n">>

RECURSIVE RenderAll(_)
RenderAll(s) ==
    IF s = <<>> THEN <<>> ELSE RenderInteraction(Head(s)) \o RenderAll(Tail(s))

\* get_context_string without the "if not recent" branch.
get_context_string_unguarded(s, n) ==
    <<Header>> \o RenderAll(get_recent_history(s, n))

\* get_context_string: the sentinel when there is nothing recent, else the
\* header and the lines of each recent interaction.
get_context_string(s, n) ==
    LET recent == get_recent_history(s, n)
    IN  IF recent = <<>> THEN <<Sentinel>> ELSE <<Header>> \o RenderAll(recent)


\* ------------------------------------------------------------------- state

NoOp == [op |-> "none", inst |-> NoInst, n |-> 0, raised |-> FALSE]
Ended(o, i, n, r) == [op |-> o, inst |-> i, n |-> n, raised |-> r]
\* A step inside _save_memory: no operation ends.
Inside(i) == [op |-> "step", inst |-> i, n |-> 0, raised |-> FALSE]

NoGet == [inst |-> NoInst, n |-> 0, res |-> <<>>, noAdd |-> FALSE, noMut |-> FALSE,
          reps |-> 0]

\* The record of a get_recent_history(n) call of instance i that returned res:
\* reps counts the calls with the same n since the instance last changed.
Got(i, n, res) ==
    [inst |-> i, n |-> n, res |-> res, noAdd |-> TRUE, noMut |-> TRUE,
     reps |-> IF lastGet.noMut /\ lastGet.inst = i /\ lastGet.n = n THEN 2 ELSE 1]

Live(i) == pc[i] # "none"
Saving(i) == pc[i] \in {"save_read", "save_write", "save_dump"}

\* -------------------------------------------- orchestrator: values (Day9)

\* self.agents of MultiAgentOrchestrator: the agents execute can run.
KnownAgents == {"cfo", "cro"}
\* The agent names a decomposition can hold: the known ones and one more.
AgentNames == KnownAgents \cup {"ceo"}

\* The empty string as a task.
EmptyTask == <<"">>

\* A task is a text, kept as the sequence of its pieces; the empty string is
\* one of the tasks.
Tasks == {<<q>> : q \in Queries} \cup {EmptyTask}

SeqsUpTo(S, n) == UNION {[1 .. k -> S] : k \in 0 .. n}
NoDuplicates(s) == \A i, j \in DOMAIN s : s[i] = s[j] => i = j

\* The subtasks dict of a decomposition written by the model, in key order:
\* every agent name with the part of the task rewritten for it.
Subtasks(names, t) ==
    [i \in DOMAIN names |-> [name |-> names[i], text |-> <<"part for ", names[i], ": ">> \o t]]

PlanKeys == {"needs_multiple_agents", "agents_needed", "subtasks"}

\* A JSON object with the keys ks; the field of an absent key is not read (it
\* is FALSE or empty here).
JsonObject(ks, nm, an, st) ==
    [json |-> "object", keys |-> ks, needs_multiple_agents |-> nm,
     agents_needed |-> an, subtasks |-> st]
\* A JSON value that is not an object (a list, a string, null).
JsonOther == [json |-> "other", keys |-> {}, needs_multiple_agents |-> FALSE,
              agents_needed |-> <<>>, subtasks |-> <<>>]

\* What json.loads can give for the content of the decomposition call on task
\* t: any object over the three keys of the prompt, each present or not, with
\* up to MaxAgentsNeeded agent names, or a value that is no object.
ParsedValues(t) ==
    {JsonOther} \cup
    {JsonObject(ks, "needs_multiple_agents" \in ks /\ nm,
                IF "agents_needed" \in ks THEN an ELSE <<>>,
                IF "subtasks" \in ks THEN Subtasks(sk, t) ELSE <<>>) :
        ks \in SUBSET PlanKeys, nm \in BOOLEAN,
        an \in SeqsUpTo(AgentNames, MaxAgentsNeeded),
        sk \in {x \in SeqsUpTo(AgentNames, MaxAgentsNeeded) : NoDuplicates(x)}}

\* The decomposition call: the API call raises, or its content is not JSON, or
\* json.loads gives a value.
NoReply == [kind |-> "none", value |-> JsonOther]
DecompositionReplies(t) ==
    {[kind |-> "raise", value |-> JsonOther], [kind |-> "text", value |-> JsonOther]}
        \cup {[kind |-> "json", value |-> v] : v \in ParsedValues(t)}

\* The synthesis call: the API call raises or gives a text.
SynthesisReplies == {[kind |-> "raise", content |-> <<>>],
                     [kind |-> "text", content |-> <<"combined answer">>]}

\* How the execute of an agent ends: with an answer, at the iteration limit,
\* or with an exception.
AgentOutcomes == {"answer", "exhausted", "raised"}

\* What agent.execute(subtask) returns (cfo_agent.py 175-180 and 215-221).
AgentReturn(name, text, outcome) ==
    IF outcome = "answer"
    THEN [success |-> TRUE, has_answer |-> TRUE,
          answer |-> <<"answer of ", name, " to ">> \o text, error |-> ""]
    ELSE [success |-> FALSE, has_answer |-> FALSE, answer |-> <<>>,
          error |-> "Max iterations reached"]

\* The result execute_parallel records when agent.execute raises.
AgentFault == [success |-> FALSE, has_answer |-> TRUE,
               answer |-> <<"Error: ", "agent failure">>, error |-> "agent failure"]

NoResult == [success |-> FALSE, answer |-> <<>>, agents_used |-> <<>>,
             agent_results |-> EmptyDict, needs_coordination |-> FALSE]
NotEnded == [status |-> "none", fault |-> "", value |-> NoResult]
Returned(v) == [status |-> "returned", fault |-> "", value |-> v]
Raised(f) == [status |-> "raised", fault |-> f, value |-> NoResult]

OrchInit ==
    /\ o_pc = "idle"
    /\ task = <<>>
    /\ reply = NoReply
    /\ decomposition = JsonOther
    /\ subtasks_left = <<>>
    /\ results = EmptyDict
    /\ ran = <<>>
    /\ synth_calls = <<>>
    /\ o_result = NotEnded

\* ---------------------------------------------- agent: values (Day7, Day8)

\* The task text given to Agent.execute.
AgentTasks == {<<"q1">>}

\* The names of TOOL_REGISTRY (self.tool_registry of the CRO agent); two names
\* stand for them.
TOOL_REGISTRY == {"query_revenue", "query_expenses"}
\* The names a tool call can hold: a registered one and one that is not.
ToolNames == TOOL_REGISTRY \cup {"get_stock_price"}
\* tool_call.function.arguments: a text json.loads decodes, and one it rejects.
Arguments == {"{}", "{"}

\* json.loads(tool_call.function.arguments)
json_loads(a) ==
    IF a = "{}" THEN [raised |-> FALSE, value |-> EmptyDict]
    ELSE [raised |-> TRUE, value |-> EmptyDict]

\* The tool_calls of one assistant message: 1 .. MaxToolCalls calls, the id of
\* a call being its place in the message.
ToolCallLists ==
    UNION {{[k \in 1 .. n |-> [id |-> k, name |-> f[k][1], arguments |-> f[k][2]]] :
              f \in [1 .. n -> ToolNames \X Arguments]} : n \in 1 .. MaxToolCalls}

\* The reasoning call: the API call raises, or the assistant message has no
\* tool calls and a content, or it has tool calls.
NoAssistantMessage == [kind |-> "none", content |-> <<>>, tool_calls |-> <<>>]
ReasoningReplies ==
    {[kind |-> "raise", content |-> <<>>, tool_calls |-> <<>>],
     [kind |-> "final", content |-> <<"final answer">>, tool_calls |-> <<>>],
     [kind |-> "final", content |-> <<"another final answer">>, tool_calls |-> <<>>]}
        \cup {[kind |-> "tools", content |-> <<>>, tool_calls |-> c] : c \in ToolCallLists}

\* A registered tool called with decoded arguments returns a result or raises.
ToolOutcomes == {"result", "raises"}
ToolResult(name, args) == <<"result of ", name>>
\* json.dumps(result)
json_dumps(result) == <<"json">> \o result

SystemMessage == [role |-> "system", content |-> <<"You are a CFO AI Agent">>]
UserMessage(t) == [role |-> "user", content |-> t]
AssistantMessage(r) == [role |-> "assistant", tool_calls |-> r.tool_calls]
ToolMessage(tc, result) ==
    [role |-> "tool", tool_call_id |-> tc.id, name |-> tc.name,
     content |-> json_dumps(result)]
TraceEntry(tc, args, result) == [tool |-> tc.name, args |-> args, result |-> result]

NoAgentResult == [success |-> FALSE, answer |-> <<>>, error |-> "", iterations |-> 0,
                  trace |-> <<>>]
AgentNotEnded == [status |-> "none", fault |-> "", value |-> NoAgentResult]
AgentReturned(v) == [status |-> "returned", fault |-> "", value |-> v]
AgentRaised(f) == [status |-> "raised", fault |-> f, value |-> NoAgentResult]

AgentInit ==
    /\ a_pc = "idle"
    /\ a_task = <<>>
    /\ max_iterations = 0
    /\ iteration = 0
    /\ messages = <<>>
    /\ execution_trace = <<>>
    /\ tool_calls = <<>>
    /\ assistant_message = NoAssistantMessage
    /\ llm_calls = 0
    /\ tool_steps = 0
    /\ a_result = AgentNotEnded

\* --------------------------------------------------- router: values (Day8)

\* The characters of a classification content.
Chars == {" ", "C", "c", "F", "O", "o", "R", "."}

\* str.upper on one character and on a text.
UpperChar(ch) == IF ch = "c" THEN "C" ELSE IF ch = "o" THEN "O" ELSE ch
str_upper(s) == [i \in DOMAIN s |-> UpperChar(s[i])]

\* str.strip: the text without its leading and trailing whitespace.
str_strip(s) ==
    LET inked == {i \in DOMAIN s : s[i] # " "}
    IN  IF inked = {} THEN <<>>
        ELSE SubSeq(s, CHOOSE i \in inked : \A j \in inked : i <= j,
                       CHOOSE i \in inked : \A j \in inked : i >= j)

\* The classification call: the API call raises, or the message has no
\* content (None), or the content is a text.
NoClassification == [kind |-> "nothing", content |-> <<>>]
ClassifierReplies ==
    {[kind |-> "raise", content |-> <<>>], [kind |-> "none", content |-> <<>>]}
        \cup {[kind |-> "text", content |-> c] : c \in SeqsUpTo(Chars, MaxContentLen)}

\* The closed set of tags route is declared to return.
RouterTags == {"cfo", "cro", "general"}

NoTag == [status |-> "none", fault |-> "", value |-> ""]
TagReturned(t) == [status |-> "returned", fault |-> "", value |-> t]
TagRaised(f) == [status |-> "raised", fault |-> f, value |-> ""]

\* The answer of the general branch of AgentRouter.execute.
GeneralAnswer ==
    <<"I can help with financial analysis (CFO) or marketing analysis (CRO). Please specify what you'd like to know!">>

NoRouterResult == [success |-> FALSE, answer |-> <<>>, agent_used |-> ""]
RouterNotEnded == [status |-> "none", fault |-> "", value |-> NoRouterResult]
RouterReturned(v) == [status |-> "returned", fault |-> "", value |-> v]
RouterRaised(f) == [status |-> "raised", fault |-> f, value |-> NoRouterResult]

RouterInit ==
    /\ r_pc = "idle"
    /\ r_query = <<>>
    /\ r_reply = NoClassification
    /\ agent_type = NoTag
    /\ r_result = RouterNotEnded

\* --------------------------------------- context-aware orchestrator (Day10)

\* The tasks given to SmartOrchestrator.execute.
SmartTasks == Queries

CurrentQuestion == "\n\nCurrent question: "
FollowUpNote ==
    "\n\nNote: If this is a follow-up question (e.g., \"What about Instagram?\"), use the conversation history to understand the full context."

\* The f-string of execute without the context.
EnhancedTask_without_context(context, t) == <<CurrentQuestion, t, FollowUpNote>>

\* The f-string of execute, lines 47-51: the context, the task and the note.
EnhancedTask(context, t) == context \o <<CurrentQuestion, t, FollowUpNote>>

\* ", ".join(names)
RECURSIVE str_join(_, _)
str_join(sep, names) ==
    IF names = <<>> THEN ""
    ELSE IF Len(names) = 1 THEN names[1]
    ELSE names[1] \o sep \o str_join(sep, Tail(names))

\* The decomposition replies of the context-aware runs: the call raises, its
\* content is no JSON, or it is the plan the prompt asks for, for one agent or
\* for the two.
SmartReplies(t) ==
    {[kind |-> "raise", value |-> JsonOther], [kind |-> "text", value |-> JsonOther],
     [kind |-> "json",
      value |-> JsonObject(PlanKeys, FALSE, <<"cro">>, Subtasks(<<"cro">>, t))],
     [kind |-> "json",
      value |-> JsonObject(PlanKeys, TRUE, <<"cfo", "cro">>,
                           Subtasks(<<"cfo", "cro">>, t))]}

SmartInit ==
    /\ s_pc = "idle"
    /\ s_task = ""
    /\ s_use_context = TRUE
    /\ enhanced_task = <<>>
    /\ s_result = NotEnded
    /\ s_loaded = 0
    /\ s_returned = 0
    /\ s_any_raised = FALSE

\* ------------------------------------------------ service entry (backend)

\* A request of process_query: the query and the user_id.
NoRequest == [query |-> "", user_id |-> NoUser]

\* What the caller of the service receives: the QueryResponse of lines 91-96
\* or the HTTPException of line 99 with its detail.
NoResponse == [status_code |-> 0, answer |-> <<>>, agents_used |-> <<>>,
               needs_coordination |-> FALSE, detail |-> ""]
QueryResponse(result) ==
    [status_code |-> 200, answer |-> result.answer, agents_used |-> result.agents_used,
     needs_coordination |-> result.needs_coordination, detail |-> ""]
HTTPException(code, text) ==
    [status_code |-> code, answer |-> <<>>, agents_used |-> <<>>,
     needs_coordination |-> FALSE, detail |-> text]

BackendInit ==
    /\ b_pc = "idle"
    /\ b_request = NoRequest
    /\ b_response = NoResponse

Init ==
    /\ file \in {AbsentFile, CorruptFile}
    /\ user = [i \in Insts |-> NoUser]
    /\ pc = [i \in Insts |-> "none"]
    /\ op = [i \in Insts |-> "none"]
    /\ short_term = [i \in Insts |-> <<>>]
    /\ long_term = [i \in Insts |-> <<>>]
    /\ data = [i \in Insts |-> EmptyDict]
    /\ clock = 0
    /\ last = NoOp
    /\ ret = <<>>
    /\ lastGet = NoGet
    /\ overlap = FALSE
    /\ cleared = {}
    /\ stored = [u \in Users |-> <<>>]
    /\ OrchInit
    /\ AgentInit
    /\ RouterInit
    /\ SmartInit
    /\ BackendInit

\* The initial state of the components that do not use the memory file.
InitNoFile == Init /\ file = AbsentFile

\* ----------------------------------------------------------------- actions

\* ConversationMemory(user_id=u): the session starts empty, the history is
\* what _load_memory returns.  An exception of _load_memory would leave no
\* instance.
__init__(i, u) ==
    /\ pc[i] = "none"
    /\ LET r == _load_memory(file, u)
       IN  /\ last' = Ended("construct", i, 0, r.raised)
           /\ IF r.raised
              THEN UNCHANGED <<user, pc, short_term, long_term>>
              ELSE /\ user' = [user EXCEPT ![i] = u]
                   /\ pc' = [pc EXCEPT ![i] = "idle"]
                   /\ short_term' = [short_term EXCEPT ![i] = <<>>]
                   /\ long_term' = [long_term EXCEPT ![i] = r.value]
    /\ ret' = <<>>
    /\ UNCHANGED <<stored, orchVars, agentVars, routerVars>>
    /\ UNCHANGED <<file, op, data, clock, lastGet, overlap, cleared>>

\* The process that holds instance i ends: the object is gone, the file stays.
Drop(i) ==
    /\ pc[i] = "idle"
    /\ user' = [user EXCEPT ![i] = NoUser]
    /\ pc' = [pc EXCEPT ![i] = "none"]
    /\ short_term' = [short_term EXCEPT ![i] = <<>>]
    /\ long_term' = [long_term EXCEPT ![i] = <<>>]
    /\ last' = Ended("drop", i, 0, FALSE)
    /\ ret' = <<>>
    /\ lastGet' = IF lastGet.inst = i THEN NoGet ELSE lastGet
    /\ overlap' = FALSE
    /\ UNCHANGED <<stored, orchVars, agentVars, routerVars>>
    /\ UNCHANGED <<file, op, data, clock, cleared>>

\* add_interaction without line 83: the history is not appended to.
add_interaction_session_only(i, q, r, a) ==
    /\ pc[i] = "idle"
    /\ clock < MaxAdds
    /\ LET x == [timestamp |-> clock + 1, query |-> q, response |-> r, agent |-> a]
       IN  /\ short_term' = [short_term EXCEPT ![i] = Append(@, x)]
           /\ long_term' = long_term
    /\ clock' = clock + 1
    /\ pc' = [pc EXCEPT ![i] = "save_read"]
    /\ op' = [op EXCEPT ![i] = "add_interaction"]
    /\ last' = Inside(i)
    /\ ret' = <<>>
    /\ lastGet' = IF lastGet.inst = i THEN NoGet ELSE lastGet
    /\ overlap' = (overlap \/ \E j \in Insts \ {i} :
                       user[j] = user[i] /\ Saving(j) /\ op[j] = "add_interaction")
    /\ UNCHANGED <<stored, orchVars, agentVars, routerVars>>
    /\ UNCHANGED <<file, user, data, cleared>>

\* add_interaction up to the call of _save_memory: the interaction is built
\* and appended to both lists.
add_interaction(i, q, r, a) ==
    /\ pc[i] = "idle"
    /\ clock < MaxAdds
    /\ LET x == [timestamp |-> clock + 1, query |-> q, response |-> r, agent |-> a]
       IN  /\ short_term' = [short_term EXCEPT ![i] = Append(@, x)]
           /\ long_term' = [long_term EXCEPT ![i] = Append(@, x)]
    /\ clock' = clock + 1
    /\ pc' = [pc EXCEPT ![i] = "save_read"]
    /\ op' = [op EXCEPT ![i] = "add_interaction"]
    /\ last' = Inside(i)
    /\ ret' = <<>>
    /\ lastGet' = IF lastGet.inst = i THEN NoGet ELSE lastGet
    /\ overlap' = (overlap \/ \E j \in Insts \ {i} :
                       user[j] = user[i] /\ Saving(j) /\ op[j] = "add_interaction")
    /\ UNCHANGED <<stored, orchVars, agentVars, routerVars>>
    /\ UNCHANGED <<file, user, data, cleared>>

\* clear_all without line 162: nothing is saved.
clear_all_unsaved(i) ==
    /\ pc[i] = "idle"
    /\ short_term' = [short_term EXCEPT ![i] = <<>>]
    /\ long_term' = [long_term EXCEPT ![i] = <<>>]
    /\ cleared' = cleared \cup {user[i]}
    /\ last' = Ended("clear_all", i, 0, FALSE)
    /\ ret' = <<>>
    /\ lastGet' = IF lastGet.inst = i THEN [lastGet EXCEPT !.noMut = FALSE] ELSE lastGet
    /\ UNCHANGED <<stored, orchVars, agentVars, routerVars>>
    /\ UNCHANGED <<file, user, pc, op, data, clock, overlap>>

\* clear_all up to the call of _save_memory.
clear_all(i) ==
    /\ pc[i] = "idle"
    /\ short_term' = [short_term EXCEPT ![i] = <<>>]
    /\ long_term' = [long_term EXCEPT ![i] = <<>>]
    /\ pc' = [pc EXCEPT ![i] = "save_read"]
    /\ op' = [op EXCEPT ![i] = "clear_all"]
    /\ cleared' = cleared \cup {user[i]}
    /\ last' = Inside(i)
    /\ ret' = <<>>
    /\ lastGet' = IF lastGet.inst = i THEN [lastGet EXCEPT !.noMut = FALSE] ELSE lastGet
    /\ UNCHANGED <<stored, orchVars, agentVars, routerVars>>
    /\ UNCHANGED <<file, user, data, clock, overlap>>


\* _save_memory_load that starts from an empty dict in place of the file's.
_save_memory_load_fresh_dict(i) ==
    /\ pc[i] = "save_read"
    /\ IF file.state = "corrupt"
       THEN /\ pc' = [pc EXCEPT ![i] = "idle"]
            /\ op' = [op EXCEPT ![i] = "none"]
            /\ last' = Ended(op[i], i, 0, TRUE)
            /\ data' = data
       ELSE /\ pc' = [pc EXCEPT ![i] = "save_write"]
            /\ op' = op
            /\ last' = Inside(i)
            /\ data' = [data EXCEPT ![i] = DictSet(EmptyDict, user[i], long_term[i])]
    /\ ret' = <<>>
    /\ UNCHANGED <<stored, orchVars, agentVars, routerVars>>
    /\ UNCHANGED <<file, user, short_term, long_term, clock, lastGet, overlap, cleared>>

\* _save_memory, lines 49-56: the whole file is read (json.load raises on an
\* unreadable file and the exception leaves add_interaction / clear_all), and
\* the identity's entry of the local dict is replaced by long_term.
_save_memory_load(i) ==
    /\ pc[i] = "save_read"
    /\ IF file.state = "corrupt"
       THEN /\ pc' = [pc EXCEPT ![i] = "idle"]
            /\ op' = [op EXCEPT ![i] = "none"]
            /\ last' = Ended(op[i], i, 0, TRUE)
            /\ data' = data
       ELSE /\ pc' = [pc EXCEPT ![i] = "save_write"]
            /\ op' = op
            /\ last' = Inside(i)
            /\ data' = [data EXCEPT ![i] = DictSet(file.data, user[i], long_term[i])]
    /\ ret' = <<>>
    /\ UNCHANGED <<stored, orchVars, agentVars, routerVars>>
    /\ UNCHANGED <<file, user, short_term, long_term, clock, lastGet, overlap, cleared>>

\* _save_memory, line 59: open(self.memory_file, 'w') creates or truncates the
\* file; until the dump it is empty.
_save_memory_open(i) ==
    /\ pc[i] = "save_write"
    /\ file' = CorruptFile
    /\ pc' = [pc EXCEPT ![i] = "save_dump"]
    /\ last' = Inside(i)
    /\ ret' = <<>>
    /\ UNCHANGED <<stored, orchVars, agentVars, routerVars>>
    /\ UNCHANGED <<user, op, short_term, long_term, data, clock, lastGet, overlap, cleared>>

\* _save_memory, line 60: json.dump writes the local dict from offset 0.  When
\* another writer has written since this writer's truncation, the bytes of
\* the two mix: the file holds this writer's dict or no JSON at all.
_save_memory_dump(i) ==
    /\ pc[i] = "save_dump"
    /\ \/ file' = OkFile(data[i])
       \/ file.state = "ok" /\ file' = CorruptFile
    /\ pc' = [pc EXCEPT ![i] = "idle"]
    /\ op' = [op EXCEPT ![i] = "none"]
    /\ data' = [data EXCEPT ![i] = EmptyDict]
    /\ last' = Ended(op[i], i, 0, FALSE)
    /\ ret' = <<>>
    /\ stored' = [stored EXCEPT ![user[i]] = data[i][user[i]]]
    /\ UNCHANGED <<orchVars, agentVars, routerVars>>
    /\ UNCHANGED <<user, short_term, long_term, clock, lastGet, overlap, cleared>>

\* clear_session that empties the history as well.
clear_session_and_history(i) ==
    /\ pc[i] = "idle"
    /\ short_term' = [short_term EXCEPT ![i] = <<>>]
    /\ long_term' = [long_term EXCEPT ![i] = <<>>]
    /\ last' = Ended("clear_session", i, 0, FALSE)
    /\ ret' = <<>>
    /\ lastGet' = IF lastGet.inst = i THEN [lastGet EXCEPT !.noMut = FALSE] ELSE lastGet
    /\ UNCHANGED <<stored, orchVars, agentVars, routerVars>>
    /\ UNCHANGED <<file, user, pc, op, data, clock, overlap, cleared>>

\* clear_session: self.short_term = []
clear_session(i) ==
    /\ pc[i] = "idle"
    /\ short_term' = [short_term EXCEPT ![i] = <<>>]
    /\ last' = Ended("clear_session", i, 0, FALSE)
    /\ ret' = <<>>
    /\ lastGet' = IF lastGet.inst = i THEN [lastGet EXCEPT !.noMut = FALSE] ELSE lastGet
    /\ UNCHANGED <<stored, orchVars, agentVars, routerVars>>
    /\ UNCHANGED <<file, user, pc, op, long_term, data, clock, overlap, cleared>>

\* A get_recent_history that takes what it returns out of the session.
GetRecentHistoryPopping(i, n) ==
    /\ pc[i] = "idle"
    /\ ret' = get_recent_history(short_term[i], n)
    /\ short_term' = [short_term EXCEPT ![i] =
                          SubSeq(@, 1, Len(@) - Len(get_recent_history(@, n)))]
    /\ last' = Ended("get_recent_history", i, n, FALSE)
    /\ lastGet' = Got(i, n, ret')
    /\ UNCHANGED <<stored, orchVars, agentVars, routerVars>>
    /\ UNCHANGED <<file, user, pc, op, long_term, data, clock, overlap, cleared>>

\* A caller's get_recent_history(n): a read, the instance is not changed.
GetRecentHistory(i, n) ==
    /\ pc[i] = "idle"
    /\ ret' = get_recent_history(short_term[i], n)
    /\ last' = Ended("get_recent_history", i, n, FALSE)
    /\ lastGet' = Got(i, n, ret')
    /\ UNCHANGED <<stored, orchVars, agentVars, routerVars>>
    /\ UNCHANGED <<file, user, pc, op, short_term, long_term, data, clock, overlap, cleared>>

\* A caller's get_context_string(n).
GetContextString(i, n) ==
    /\ pc[i] = "idle"
    /\ ret' = get_context_string(short_term[i], n)
    /\ last' = Ended("get_context_string", i, n, FALSE)
    /\ UNCHANGED <<stored, orchVars, agentVars, routerVars>>
    /\ UNCHANGED <<file, user, pc, op, short_term, long_term, data, clock, lastGet,
                   overlap, cleared>>

Next ==
    \/ \E i \in Insts, u \in Users : __init__(i, u) /\ UNCHANGED callerVars
    \/ \E i \in Insts : Drop(i) /\ UNCHANGED callerVars
    \/ \E i \in Insts, q \in Queries, r \in Responses, a \in Agents :
           add_interaction(i, q, r, a) /\ UNCHANGED callerVars
    \/ \E i \in Insts : clear_all(i) /\ UNCHANGED callerVars
    \/ \E i \in Insts : _save_memory_load(i) /\ UNCHANGED callerVars
    \/ \E i \in Insts : _save_memory_open(i) /\ UNCHANGED callerVars
    \/ \E i \in Insts : _save_memory_dump(i) /\ UNCHANGED callerVars
    \/ \E i \in Insts : clear_session(i) /\ UNCHANGED callerVars

\* Instances of several processes over one memory file.
Spec == Init /\ [][Next]_vars

\* No instance but i is inside _save_memory.
NoOtherSaving(i) == \A j \in Insts \ {i} : ~Saving(j)

\* The steps of Next when every operation runs to its end before another
\* instance takes a step.
NextSerial ==
    \/ \E i \in Insts :
           /\ NoOtherSaving(i)
           /\ \E u \in Users : __init__(i, u) /\ UNCHANGED callerVars
    \/ \E i \in Insts : NoOtherSaving(i) /\ Drop(i) /\ UNCHANGED callerVars
    \/ \E i \in Insts :
           /\ NoOtherSaving(i)
           /\ \E q \in Queries, r \in Responses, a \in Agents :
                  add_interaction(i, q, r, a) /\ UNCHANGED callerVars
    \/ \E i \in Insts : NoOtherSaving(i) /\ clear_all(i) /\ UNCHANGED callerVars
    \/ \E i \in Insts : _save_memory_load(i) /\ UNCHANGED callerVars
    \/ \E i \in Insts : _save_memory_open(i) /\ UNCHANGED callerVars
    \/ \E i \in Insts : _save_memory_dump(i) /\ UNCHANGED callerVars
    \/ \E i \in Insts : NoOtherSaving(i) /\ clear_session(i) /\ UNCHANGED callerVars

\* Instances of several processes over one memory file, their operations one
\* after the other.
SpecSerial == Init /\ [][NextSerial]_vars

\* One instance and its callers: the operations of ConversationMemory in any
\* order, the getters among them.
NextQuery ==
    \/ \E u \in Users : __init__(Caller, u) /\ UNCHANGED callerVars
    \/ \E q \in Queries, r \in Responses, a \in Agents :
           add_interaction(Caller, q, r, a) /\ UNCHANGED callerVars
    \/ clear_all(Caller) /\ UNCHANGED callerVars
    \/ _save_memory_load(Caller) /\ UNCHANGED callerVars
    \/ _save_memory_open(Caller) /\ UNCHANGED callerVars
    \/ _save_memory_dump(Caller) /\ UNCHANGED callerVars
    \/ clear_session(Caller) /\ UNCHANGED callerVars
    \/ \E n \in NValues : GetRecentHistory(Caller, n) /\ UNCHANGED callerVars
    \/ \E n \in NValues : GetContextString(Caller, n) /\ UNCHANGED callerVars

SpecQuery == Init /\ [][NextQuery]_vars


\* ------------------------------------- orchestrator: execute (Day9)

\* The plan of the except branch of decompose_task: the CFO agent alone, with
\* the task as its subtask.
Fallback(t) ==
    JsonObject(PlanKeys, FALSE, <<"cfo">>, <<[name |-> "cfo", text |-> t]>>)

\* decompose_task(task) when the decomposition call gives r.  The API call is
\* made before the try block, so its exception leaves decompose_task; inside
\* the try, json.loads either raises (the except branch returns the fallback)
\* or gives a value, which is returned as it is.
decompose_task(t, r) ==
    IF r.kind = "raise" THEN [raised |-> TRUE, value |-> JsonOther]
    ELSE IF r.kind = "text" THEN [raised |-> FALSE, value |-> Fallback(t)]
    ELSE [raised |-> FALSE, value |-> r.value]

\* execute, line 235: decomposition = self.decompose_task(task).
execute_decompose(t, r) ==
    /\ o_pc = "idle"
    /\ task' = t
    /\ reply' = r
    /\ LET d == decompose_task(t, r)
       IN  /\ decomposition' = d.value
           /\ o_pc' = IF d.raised THEN "done" ELSE "show"
           /\ o_result' = IF d.raised THEN Raised("decomposition call") ELSE NotEnded
    /\ subtasks_left' = <<>>
    /\ results' = EmptyDict
    /\ ran' = <<>>
    /\ synth_calls' = <<>>
    /\ UNCHANGED <<memVars, agentVars, routerVars>>

\* execute, lines 237-243: decomposition['agents_needed'] and
\* decomposition['needs_multiple_agents'] are printed; a value that is no
\* dict, or a dict without one of the keys, raises.
execute_show ==
    /\ o_pc = "show"
    /\ IF decomposition.json # "object"
       THEN o_pc' = "done" /\ o_result' = Raised("TypeError")
       ELSE IF ~({"agents_needed", "needs_multiple_agents"} \subseteq decomposition.keys)
       THEN o_pc' = "done" /\ o_result' = Raised("KeyError")
       ELSE o_pc' = "parallel" /\ o_result' = o_result
    /\ UNCHANGED <<task, reply, decomposition, subtasks_left, results, ran, synth_calls>>
    /\ UNCHANGED <<memVars, agentVars, routerVars>>

\* execute, line 247, and execute_parallel, line 149: decomposition["subtasks"]
\* is read (KeyError without the key) and results starts empty.
execute_parallel_begin ==
    /\ o_pc = "parallel"
    /\ IF "subtasks" \in decomposition.keys
       THEN /\ o_pc' = "agents"
            /\ subtasks_left' = decomposition.subtasks
            /\ o_result' = o_result
       ELSE /\ o_pc' = "done"
            /\ subtasks_left' = subtasks_left
            /\ o_result' = Raised("KeyError")
    /\ results' = EmptyDict
    /\ UNCHANGED <<task, reply, decomposition, ran, synth_calls>>
    /\ UNCHANGED <<memVars, agentVars, routerVars>>

\* One round of the loop of execute_parallel without its try/except: the
\* exception of agent.execute leaves execute_parallel and execute.
execute_parallel_step_uncaught(outcome) ==
    /\ o_pc = "agents"
    /\ subtasks_left # <<>>
    /\ LET item == Head(subtasks_left)
       IN  IF item.name \in KnownAgents
           THEN /\ ran' = Append(ran, [name |-> item.name, outcome |-> outcome])
                /\ IF outcome = "raised"
                   THEN /\ results' = results
                        /\ o_pc' = "done"
                        /\ o_result' = Raised("agent failure")
                   ELSE /\ results' = DictSet(results, item.name,
                                              AgentReturn(item.name, item.text, outcome))
                        /\ UNCHANGED <<o_pc, o_result>>
           ELSE UNCHANGED <<results, ran, o_pc, o_result>>
    /\ subtasks_left' = Tail(subtasks_left)
    /\ UNCHANGED <<task, reply, decomposition, synth_calls>>
    /\ UNCHANGED <<memVars, routerVars>>

\* One round of the loop of execute_parallel, lines 151-165, for the next item
\* of subtasks.items(): a name in self.agents is executed and its result, or
\* the failure result of the except branch, is recorded; another name is
\* passed over.
execute_parallel_step(outcome) ==
    /\ o_pc = "agents"
    /\ subtasks_left # <<>>
    /\ LET item == Head(subtasks_left)
       IN  IF item.name \in KnownAgents
           THEN /\ ran' = Append(ran, [name |-> item.name, outcome |-> outcome])
                /\ results' = DictSet(results, item.name,
                                      IF outcome = "raised" THEN AgentFault
                                      ELSE AgentReturn(item.name, item.text, outcome))
           ELSE UNCHANGED <<results, ran>>
    /\ subtasks_left' = Tail(subtasks_left)
    /\ UNCHANGED <<o_pc, task, reply, decomposition, synth_calls, o_result>>
    /\ UNCHANGED <<memVars, routerVars>>

\* The dict execute returns, lines 261-267.
ExecuteResult(answer) ==
    [success |-> TRUE, answer |-> answer,
     agents_used |-> decomposition.agents_needed,
     agent_results |-> results,
     needs_coordination |-> decomposition.needs_multiple_agents]

NoAnswer == <<"No answer">>
CouldNotComplete == <<"Error: Could not complete task">>

\* execute, lines 249-259, after execute_parallel has returned: with
\* needs_multiple_agents the synthesis follows; otherwise the answer is the one
\* of agents_needed[0] (IndexError on an empty list) when that agent has a
\* successful result, else the fixed error text, and execute returns.
execute_single_or_synthesis ==
    /\ o_pc = "agents"
    /\ subtasks_left = <<>>
    /\ IF decomposition.needs_multiple_agents
       THEN o_pc' = "synthesize" /\ o_result' = o_result
       ELSE /\ o_pc' = "done"
            /\ IF decomposition.agents_needed = <<>>
               THEN o_result' = Raised("IndexError")
               ELSE LET agent_name == decomposition.agents_needed[1]
                    IN  IF agent_name \in DOMAIN results /\ results[agent_name].success
                        THEN o_result' = Returned(ExecuteResult(
                                 IF results[agent_name].has_answer
                                 THEN results[agent_name].answer ELSE NoAnswer))
                        ELSE o_result' = Returned(ExecuteResult(CouldNotComplete))
    /\ UNCHANGED <<task, reply, decomposition, subtasks_left, results, ran, synth_calls>>
    /\ UNCHANGED <<memVars, agentVars, routerVars>>

\* synthesize_results(task, results), lines 169-215, and the return of
\* execute: the prompt is built from every result (the answer of a successful
\* one, "Error occurred" for another) and the synthesis call is made; its
\* exception leaves execute, its content is the answer.
synthesize_results(r) ==
    /\ o_pc = "synthesize"
    /\ synth_calls' = Append(synth_calls, results)
    /\ o_pc' = "done"
    /\ o_result' = IF r.kind = "raise" THEN Raised("synthesis call")
                   ELSE Returned(ExecuteResult(r.content))
    /\ UNCHANGED <<task, reply, decomposition, subtasks_left, results, ran>>
    /\ UNCHANGED <<memVars, agentVars, routerVars>>

NextOrch ==
    \/ \E t \in Tasks :
           /\ o_pc = "idle"
           /\ \E r \in DecompositionReplies(t) :
                  execute_decompose(t, r) /\ UNCHANGED callerVars
    \/ execute_show /\ UNCHANGED callerVars
    \/ execute_parallel_begin /\ UNCHANGED callerVars
    \/ \E outcome \in AgentOutcomes :
           execute_parallel_step(outcome) /\ UNCHANGED <<agentVars, callerVars>>
    \/ execute_single_or_synthesis /\ UNCHANGED callerVars
    \/ \E r \in SynthesisReplies : synthesize_results(r) /\ UNCHANGED callerVars

\* One caller of MultiAgentOrchestrator.execute, the external calls giving
\* any of their outcomes.
SpecOrch == InitNoFile /\ [][NextOrch]_vars


\* ------------------------------------------ agent: execute (Day7, Day8)

\* execute(task, max_iterations), lines 135-154: the conversation starts with
\* the system prompt and the task, the trace is empty.
Agent_execute(t, m) ==
    /\ a_pc = "idle"
    /\ a_task' = t
    /\ max_iterations' = m
    /\ iteration' = 0
    /\ messages' = <<SystemMessage, UserMessage(t)>>
    /\ execution_trace' = <<>>
    /\ tool_calls' = <<>>
    /\ assistant_message' = NoAssistantMessage
    /\ llm_calls' = 0
    /\ tool_steps' = 0
    /\ a_result' = AgentNotEnded
    /\ a_pc' = "loop"
    /\ UNCHANGED <<memVars, orchVars, routerVars>>

\* reasoning_step that reports the 0-based index of the final step.
reasoning_step_zero_based(r) ==
    /\ a_pc = "loop"
    /\ iteration < max_iterations
    /\ llm_calls' = llm_calls + 1
    /\ assistant_message' = r
    /\ IF r.kind = "raise"
       THEN /\ a_pc' = "done"
            /\ a_result' = AgentRaised("reasoning call")
            /\ UNCHANGED <<messages, tool_calls, tool_steps>>
       ELSE IF r.kind = "final"
       THEN /\ a_pc' = "done"
            /\ a_result' = AgentReturned([success |-> TRUE, answer |-> r.content,
                                          error |-> "", iterations |-> iteration,
                                          trace |-> execution_trace])
            /\ UNCHANGED <<messages, tool_calls, tool_steps>>
       ELSE /\ a_pc' = "tools"
            /\ messages' = Append(messages, AssistantMessage(r))
            /\ tool_calls' = r.tool_calls
            /\ tool_steps' = tool_steps + 1
            /\ a_result' = a_result
    /\ UNCHANGED <<a_task, max_iterations, iteration, execution_trace>>
    /\ UNCHANGED <<memVars, orchVars, routerVars>>

\* One round of the for loop up to the tool calls, lines 156-183: the
\* reasoning call (its exception leaves execute); an assistant message without
\* tool calls ends execute with success and its content; otherwise the
\* message joins the conversation and its tool calls are handled next.
reasoning_step(r) ==
    /\ a_pc = "loop"
    /\ iteration < max_iterations
    /\ llm_calls' = llm_calls + 1
    /\ assistant_message' = r
    /\ IF r.kind = "raise"
       THEN /\ a_pc' = "done"
            /\ a_result' = AgentRaised("reasoning call")
            /\ UNCHANGED <<messages, tool_calls, tool_steps>>
       ELSE IF r.kind = "final"
       THEN /\ a_pc' = "done"
            /\ a_result' = AgentReturned([success |-> TRUE, answer |-> r.content,
                                          error |-> "", iterations |-> iteration + 1,
                                          trace |-> execution_trace])
            /\ UNCHANGED <<messages, tool_calls, tool_steps>>
       ELSE /\ a_pc' = "tools"
            /\ messages' = Append(messages, AssistantMessage(r))
            /\ tool_calls' = r.tool_calls
            /\ tool_steps' = tool_steps + 1
            /\ a_result' = a_result
    /\ UNCHANGED <<a_task, max_iterations, iteration, execution_trace>>
    /\ UNCHANGED <<memVars, orchVars, routerVars>>

\* tool_call_step that puts the new entry at the front of the trace.
tool_call_step_prepending(outcome) ==
    /\ a_pc = "tools"
    /\ tool_calls # <<>>
    /\ LET tool_call == Head(tool_calls)
           function_args == json_loads(tool_call.arguments)
           result == ToolResult(tool_call.name, function_args.value)
           more == Tail(tool_calls) # <<>>
       IN  IF function_args.raised
           THEN /\ a_pc' = "done"
                /\ a_result' = AgentRaised("arguments")
                /\ UNCHANGED <<messages, execution_trace, iteration>>
           ELSE IF tool_call.name \in TOOL_REGISTRY /\ outcome = "raises"
           THEN /\ a_pc' = "done"
                /\ a_result' = AgentRaised("tool")
                /\ UNCHANGED <<messages, execution_trace, iteration>>
           ELSE /\ IF tool_call.name \in TOOL_REGISTRY
                   THEN /\ messages' = Append(messages, ToolMessage(tool_call, result))
                        /\ execution_trace' =
                               <<TraceEntry(tool_call, function_args.value, result)>>
                                   \o execution_trace
                   ELSE UNCHANGED <<messages, execution_trace>>
                /\ a_pc' = IF more THEN "tools" ELSE "loop"
                /\ iteration' = IF more THEN iteration ELSE iteration + 1
                /\ a_result' = a_result
    /\ tool_calls' = Tail(tool_calls)
    /\ UNCHANGED <<a_task, max_iterations, assistant_message, llm_calls, tool_steps>>
    /\ UNCHANGED <<memVars, orchVars, routerVars>>

\* tool_call_step that does not add the tool result to the conversation.
tool_call_step_no_feedback(outcome) ==
    /\ a_pc = "tools"
    /\ tool_calls # <<>>
    /\ LET tool_call == Head(tool_calls)
           function_args == json_loads(tool_call.arguments)
           result == ToolResult(tool_call.name, function_args.value)
           more == Tail(tool_calls) # <<>>
       IN  IF function_args.raised
           THEN /\ a_pc' = "done"
                /\ a_result' = AgentRaised("arguments")
                /\ UNCHANGED <<messages, execution_trace, iteration>>
           ELSE IF tool_call.name \in TOOL_REGISTRY /\ outcome = "raises"
           THEN /\ a_pc' = "done"
                /\ a_result' = AgentRaised("tool")
                /\ UNCHANGED <<messages, execution_trace, iteration>>
           ELSE /\ IF tool_call.name \in TOOL_REGISTRY
                   THEN /\ messages' = messages
                        /\ execution_trace' = Append(execution_trace,
                               TraceEntry(tool_call, function_args.value, result))
                   ELSE UNCHANGED <<messages, execution_trace>>
                /\ a_pc' = IF more THEN "tools" ELSE "loop"
                /\ iteration' = IF more THEN iteration ELSE iteration + 1
                /\ a_result' = a_result
    /\ tool_calls' = Tail(tool_calls)
    /\ UNCHANGED <<a_task, max_iterations, assistant_message, llm_calls, tool_steps>>
    /\ UNCHANGED <<memVars, orchVars, routerVars>>

\* One round of the loop over the tool calls, lines 185-213: the arguments are
\* decoded (json.loads raises on a text that is no JSON), a registered tool is
\* called (its exception leaves execute) and its result joins the conversation
\* and the trace; a name that is not registered is passed over.  After the
\* last tool call the for loop goes to its next iteration.
tool_call_step(outcome) ==
    /\ a_pc = "tools"
    /\ tool_calls # <<>>
    /\ LET tool_call == Head(tool_calls)
           function_args == json_loads(tool_call.arguments)
           result == ToolResult(tool_call.name, function_args.value)
           more == Tail(tool_calls) # <<>>
       IN  IF function_args.raised
           THEN /\ a_pc' = "done"
                /\ a_result' = AgentRaised("arguments")
                /\ UNCHANGED <<messages, execution_trace, iteration>>
           ELSE IF tool_call.name \in TOOL_REGISTRY /\ outcome = "raises"
           THEN /\ a_pc' = "done"
                /\ a_result' = AgentRaised("tool")
                /\ UNCHANGED <<messages, execution_trace, iteration>>
           ELSE /\ IF tool_call.name \in TOOL_REGISTRY
                   THEN /\ messages' = Append(messages, ToolMessage(tool_call, result))
                        /\ execution_trace' = Append(execution_trace,
                               TraceEntry(tool_call, function_args.value, result))
                   ELSE UNCHANGED <<messages, execution_trace>>
                /\ a_pc' = IF more THEN "tools" ELSE "loop"
                /\ iteration' = IF more THEN iteration ELSE iteration + 1
                /\ a_result' = a_result
    /\ tool_calls' = Tail(tool_calls)
    /\ UNCHANGED <<a_task, max_iterations, assistant_message, llm_calls, tool_steps>>
    /\ UNCHANGED <<memVars, orchVars, routerVars>>

\* The end of the for loop as a loop without a cap: the iterations start over.
max_iterations_reached_restarting ==
    /\ a_pc = "loop"
    /\ iteration = max_iterations
    /\ iteration' = 0
    /\ UNCHANGED <<a_pc, a_task, max_iterations, messages, execution_trace, tool_calls,
                   assistant_message, llm_calls, tool_steps, a_result>>
    /\ UNCHANGED <<memVars, orchVars, routerVars>>

\* The return after the loop with the iteration count one too high.
max_iterations_reached_off_by_one ==
    /\ a_pc = "loop"
    /\ iteration = max_iterations
    /\ a_pc' = "done"
    /\ a_result' = AgentReturned([success |-> FALSE, answer |-> <<>>,
                                  error |-> "Max iterations reached",
                                  iterations |-> iteration + 1,
                                  trace |-> execution_trace])
    /\ UNCHANGED <<a_task, max_iterations, iteration, messages, execution_trace, tool_calls,
                   assistant_message, llm_calls, tool_steps>>
    /\ UNCHANGED <<memVars, orchVars, routerVars>>

\* The return after the for loop, lines 215-221: range(max_iterations) is used
\* up.
max_iterations_reached ==
    /\ a_pc = "loop"
    /\ iteration = max_iterations
    /\ a_pc' = "done"
    /\ a_result' = AgentReturned([success |-> FALSE, answer |-> <<>>,
                                  error |-> "Max iterations reached",
                                  iterations |-> max_iterations,
                                  trace |-> execution_trace])
    /\ UNCHANGED <<a_task, max_iterations, iteration, messages, execution_trace, tool_calls,
                   assistant_message, llm_calls, tool_steps>>
    /\ UNCHANGED <<memVars, orchVars, routerVars>>

NextAgent ==
    \/ \E t \in AgentTasks, m \in 0 .. MaxIter : Agent_execute(t, m) /\ UNCHANGED callerVars
    \/ /\ a_pc = "loop"
       /\ \E r \in ReasoningReplies : reasoning_step(r) /\ UNCHANGED callerVars
    \/ \E outcome \in ToolOutcomes : tool_call_step(outcome) /\ UNCHANGED callerVars
    \/ max_iterations_reached /\ UNCHANGED callerVars

\* One call of Agent.execute, the reasoning calls and the tools giving any of
\* their outcomes.
SpecAgent == InitNoFile /\ [][NextAgent]_vars


\* -------------------------------------------------- router: execute (Day8)

\* route(query) when the classification call gives r, lines 62-88: the
\* exception of the API call leaves route; content.strip().upper() raises
\* AttributeError on a message without content; the category is compared
\* with "CFO" and "CRO", everything else is "general".
route(q, r) ==
    IF r.kind = "raise" THEN TagRaised("classification call")
    ELSE IF r.kind = "none" THEN TagRaised("AttributeError")
    ELSE LET category == str_upper(str_strip(r.content))
         IN  IF category = <<"C", "F", "O">> THEN TagReturned("cfo")
             ELSE IF category = <<"C", "R", "O">> THEN TagReturned("cro")
             ELSE TagReturned("general")

\* AgentRouter.execute, lines 101-108: agent_type = self.route(query).
Router_route(q, r) ==
    /\ r_pc = "idle"
    /\ r_query' = q
    /\ r_reply' = r
    /\ agent_type' = route(q, r)
    /\ r_pc' = IF agent_type'.status = "raised" THEN "done" ELSE "routed"
    /\ r_result' = IF agent_type'.status = "raised" THEN RouterRaised(agent_type'.fault)
                   ELSE RouterNotEnded
    /\ UNCHANGED <<memVars, orchVars, agentVars>>

\* AgentRouter.execute, lines 110-127: the agent of the tag is executed with
\* the query (its exception leaves execute) and its result is labelled; the
\* general tag gives the fixed answer.
Router_dispatch(outcome) ==
    /\ r_pc = "routed"
    /\ r_pc' = "done"
    /\ r_result' =
         IF agent_type.value \in KnownAgents
         THEN IF outcome = "raised" THEN RouterRaised("agent failure")
              ELSE LET res == AgentReturn(agent_type.value, r_query, outcome)
                   IN  RouterReturned([success |-> res.success, answer |-> res.answer,
                                       agent_used |-> IF agent_type.value = "cfo"
                                                      THEN "CFO" ELSE "CRO"])
         ELSE RouterReturned([success |-> TRUE, answer |-> GeneralAnswer,
                              agent_used |-> "GENERAL"])
    /\ UNCHANGED <<r_query, r_reply, agent_type>>
    /\ UNCHANGED <<memVars, orchVars, agentVars>>

NextRouter ==
    \/ \E q \in Tasks :
           /\ r_pc = "idle"
           /\ \E r \in ClassifierReplies : Router_route(q, r) /\ UNCHANGED callerVars
    \/ \E outcome \in AgentOutcomes : Router_dispatch(outcome) /\ UNCHANGED callerVars

\* One call of AgentRouter.execute, the classification call and the agent
\* giving any of their outcomes.
SpecRouter == InitNoFile /\ [][NextRouter]_vars


\* ------------------------------- context-aware orchestrator: execute (Day10)

\* SmartOrchestrator(user_id=u): the parent's constructor and the
\* ConversationMemory of the identity.
SmartOrchestrator_init(u) ==
    /\ __init__(Caller, u)
    /\ s_loaded' = Len(long_term'[Caller])
    /\ s_returned' = 0
    /\ s_any_raised' = FALSE
    /\ UNCHANGED <<s_pc, s_task, s_use_context, enhanced_task, s_result>>

\* The process that holds the SmartOrchestrator ends between two calls.
SmartOrchestrator_exit ==
    /\ s_pc = "idle"
    /\ Drop(Caller)
    /\ UNCHANGED smartVars

\* Smart_execute that takes the context from the history of the identity in
\* place of the session.
Smart_execute_from_history(t, use_context) ==
    /\ s_pc = "idle"
    /\ pc[Caller] = "idle"
    /\ clock < MaxAdds
    /\ s_pc' = "super"
    /\ s_task' = t
    /\ s_use_context' = use_context
    /\ enhanced_task' =
           IF use_context /\ get_recent_history(long_term[Caller], 5) # <<>>
           THEN EnhancedTask(get_context_string(long_term[Caller], 2), t)
           ELSE <<t>>
    /\ s_result' = NotEnded
    /\ UNCHANGED <<s_loaded, s_returned, s_any_raised>>
    /\ o_pc' = "idle"
    /\ task' = <<>>
    /\ reply' = NoReply
    /\ decomposition' = JsonOther
    /\ subtasks_left' = <<>>
    /\ results' = EmptyDict
    /\ ran' = <<>>
    /\ synth_calls' = <<>>
    /\ o_result' = NotEnded
    /\ UNCHANGED <<memVars, agentVars, routerVars>>

\* execute(task, use_context), lines 44-56, up to the call of the parent's
\* execute: with use_context and a non-empty get_recent_history() the task is
\* preceded by get_context_string(n=2) and followed by the note, otherwise it
\* is passed as it is.  The frame of the parent's execute is new.
Smart_execute(t, use_context) ==
    /\ s_pc = "idle"
    /\ pc[Caller] = "idle"
    /\ clock < MaxAdds
    /\ s_pc' = "super"
    /\ s_task' = t
    /\ s_use_context' = use_context
    /\ enhanced_task' =
           IF use_context /\ get_recent_history(short_term[Caller], 5) # <<>>
           THEN EnhancedTask(get_context_string(short_term[Caller], 2), t)
           ELSE <<t>>
    /\ s_result' = NotEnded
    /\ UNCHANGED <<s_loaded, s_returned, s_any_raised>>
    /\ o_pc' = "idle"
    /\ task' = <<>>
    /\ reply' = NoReply
    /\ decomposition' = JsonOther
    /\ subtasks_left' = <<>>
    /\ results' = EmptyDict
    /\ ran' = <<>>
    /\ synth_calls' = <<>>
    /\ o_result' = NotEnded
    /\ UNCHANGED <<memVars, agentVars, routerVars>>

\* Smart_store that writes an interaction for a failed orchestration as well.
Smart_store_also_failures ==
    /\ s_pc = "super"
    /\ o_pc = "done"
    /\ add_interaction(Caller, s_task,
                       IF o_result.status = "raised" THEN NoAnswer
                       ELSE o_result.value.answer,
                       str_join(", ", o_result.value.agents_used))
    /\ s_pc' = "storing"
    /\ s_result' = s_result
    /\ s_any_raised' = s_any_raised
    /\ UNCHANGED <<s_task, s_use_context, enhanced_task, s_loaded, s_returned>>

\* Smart_store that stores the default text in place of the answer.
Smart_store_default_answer ==
    /\ s_pc = "super"
    /\ o_pc = "done"
    /\ IF o_result.status = "raised"
       THEN /\ s_pc' = "idle"
            /\ s_result' = o_result
            /\ s_any_raised' = TRUE
            /\ UNCHANGED <<memVars, orchVars, agentVars, routerVars>>
       ELSE /\ add_interaction(Caller, s_task, NoAnswer,
                               str_join(", ", o_result.value.agents_used))
            /\ s_pc' = "storing"
            /\ s_result' = s_result
            /\ s_any_raised' = s_any_raised
    /\ UNCHANGED <<s_task, s_use_context, enhanced_task, s_loaded, s_returned>>

\* execute, lines 56-63: an exception of the parent's execute leaves execute;
\* its result is stored with add_interaction(query=task,
\* response=result.get("answer", "No answer"),
\* agent_used=", ".join(result.get("agents_used", []))).
Smart_store ==
    /\ s_pc = "super"
    /\ o_pc = "done"
    /\ IF o_result.status = "raised"
       THEN /\ s_pc' = "idle"
            /\ s_result' = o_result
            /\ s_any_raised' = TRUE
            /\ UNCHANGED <<memVars, orchVars, agentVars, routerVars>>
       ELSE /\ add_interaction(Caller, s_task, o_result.value.answer,
                               str_join(", ", o_result.value.agents_used))
            /\ s_pc' = "storing"
            /\ s_result' = s_result
            /\ s_any_raised' = s_any_raised
    /\ UNCHANGED <<s_task, s_use_context, enhanced_task, s_loaded, s_returned>>

\* execute, lines 59-65: an exception of add_interaction leaves execute,
\* otherwise the result of the parent's execute is returned.
Smart_return ==
    /\ s_pc = "storing"
    /\ pc[Caller] = "idle"
    /\ s_pc' = "idle"
    /\ s_result' = IF last.raised THEN Raised("add_interaction") ELSE o_result
    /\ s_returned' = IF last.raised THEN s_returned ELSE s_returned + 1
    /\ s_any_raised' = (s_any_raised \/ last.raised)
    /\ UNCHANGED <<s_task, s_use_context, enhanced_task, s_loaded>>
    /\ UNCHANGED <<memVars, orchVars, agentVars, routerVars>>

NextSmart ==
    \/ \E u \in Users : SmartOrchestrator_init(u) /\ UNCHANGED backendVars
    \/ SmartOrchestrator_exit /\ UNCHANGED backendVars
    \/ \E t \in SmartTasks, use_context \in BOOLEAN :
           Smart_execute(t, use_context) /\ UNCHANGED backendVars
    \/ \E r \in SmartReplies(enhanced_task) :
           s_pc = "super" /\ execute_decompose(enhanced_task, r) /\ UNCHANGED callerVars
    \/ execute_show /\ UNCHANGED callerVars
    \/ execute_parallel_begin /\ UNCHANGED callerVars
    \/ \E outcome \in AgentOutcomes :
           execute_parallel_step(outcome) /\ UNCHANGED <<agentVars, callerVars>>
    \/ execute_single_or_synthesis /\ UNCHANGED callerVars
    \/ \E r \in SynthesisReplies : synthesize_results(r) /\ UNCHANGED callerVars
    \/ Smart_store /\ UNCHANGED backendVars
    \/ _save_memory_load(Caller) /\ UNCHANGED callerVars
    \/ _save_memory_open(Caller) /\ UNCHANGED callerVars
    \/ _save_memory_dump(Caller) /\ UNCHANGED callerVars
    \/ Smart_return /\ UNCHANGED backendVars

\* One SmartOrchestrator and its caller: executes one after the other, the
\* external calls giving any of their outcomes, the memory file absent or
\* unreadable at the start.
SpecSmart == Init /\ [][NextSmart]_vars

\* ------------------------------ orchestrator and its agents (Day9, Day7, Day8)

\* The default of the max_iterations parameter of Agent.execute, which
\* execute_parallel leaves as it is.
DefaultMaxIterations == 5

\* The decomposition replies of the runs with the agents: those of the
\* context-aware runs and a plan that names an identity without an agent.
TeamReplies(t) ==
    SmartReplies(t) \cup
        {[kind |-> "json",
          value |-> JsonObject(PlanKeys, TRUE, <<"cfo", "ceo">>,
                               Subtasks(<<"cfo", "ceo">>, t))]}

\* The reasoning replies of these runs: the call raises, the message is
\* final, or it asks for one registered tool.
TeamReasoningReplies ==
    {r \in ReasoningReplies :
        \/ r.kind = "raise"
        \/ r.kind = "final" /\ r.content = <<"final answer">>
        \/ /\ r.kind = "tools"
           /\ r.tool_calls = <<[id |-> 1, name |-> "query_revenue", arguments |-> "{}"]>>}

\* How the execute of the agent ended, as execute_parallel sees it.
OutcomeOf(r) ==
    IF r.status = "raised" THEN "raised"
    ELSE IF r.value.success THEN "answer" ELSE "exhausted"

\* execute_parallel, lines 152-157: the agent of the next item is called with
\* the subtask.
execute_parallel_call ==
    /\ o_pc = "agents"
    /\ subtasks_left # <<>>
    /\ Head(subtasks_left).name \in KnownAgents
    /\ Agent_execute(Head(subtasks_left).text, DefaultMaxIterations)

\* execute_parallel, lines 157-165: the call of the agent has ended and its
\* result is recorded.
execute_parallel_return ==
    /\ a_pc = "done"
    /\ execute_parallel_step(OutcomeOf(a_result))
    /\ a_pc' = "idle"
    /\ UNCHANGED <<a_task, max_iterations, iteration, messages, execution_trace,
                   tool_calls, assistant_message, llm_calls, tool_steps, a_result>>

\* execute_parallel, line 152: an item whose name has no agent is passed over.
execute_parallel_skip ==
    /\ o_pc = "agents"
    /\ subtasks_left # <<>>
    /\ Head(subtasks_left).name \notin KnownAgents
    /\ execute_parallel_step("answer")
    /\ UNCHANGED agentVars

NextTeam ==
    \/ \E t \in AgentTasks :
           /\ o_pc = "idle"
           /\ \E r \in TeamReplies(t) : execute_decompose(t, r) /\ UNCHANGED callerVars
    \/ execute_show /\ UNCHANGED callerVars
    \/ execute_parallel_begin /\ UNCHANGED callerVars
    \/ execute_parallel_call /\ UNCHANGED callerVars
    \/ \E r \in TeamReasoningReplies : reasoning_step(r) /\ UNCHANGED callerVars
    \/ \E outcome \in ToolOutcomes : tool_call_step(outcome) /\ UNCHANGED callerVars
    \/ max_iterations_reached /\ UNCHANGED callerVars
    \/ execute_parallel_return /\ UNCHANGED callerVars
    \/ execute_parallel_skip /\ UNCHANGED callerVars
    \/ execute_single_or_synthesis /\ UNCHANGED callerVars
    \/ \E r \in SynthesisReplies : synthesize_results(r) /\ UNCHANGED callerVars

\* One call of MultiAgentOrchestrator.execute with the calls of its agents
\* step by step; every external call comes back, so a step that can be taken
\* is taken.
SpecTeam == InitNoFile /\ [][NextTeam]_vars /\ WF_vars(NextTeam)

\* -------------------------------------- service entry: process_query (backend)

\* process_query, lines 77-80: the orchestrator of the user_id is taken from
\* orchestrators, or made and kept there.
process_query_begin(q, u) ==
    /\ b_pc = "idle"
    /\ s_pc = "idle"
    /\ IF Live(Caller)
       THEN /\ user[Caller] = u
            /\ UNCHANGED <<memVars, orchVars, agentVars, routerVars, smartVars>>
       ELSE SmartOrchestrator_init(u)
    /\ b_pc' = "execute"
    /\ b_request' = [query |-> q, user_id |-> u]
    /\ b_response' = NoResponse

\* process_query, line 87: orchestrator.execute(request.query), use_context
\* having its default.
process_query_execute ==
    /\ b_pc = "execute"
    /\ Smart_execute(b_request.query, TRUE)
    /\ b_pc' = "executing"
    /\ UNCHANGED <<b_request, b_response>>

\* process_query, lines 89-99: the result of execute becomes the
\* QueryResponse; an exception becomes an HTTPException with status 500 and
\* the text of the exception as its detail.
process_query_respond ==
    /\ b_pc = "executing"
    /\ s_pc = "idle"
    /\ b_response' = IF s_result.status = "raised"
                     THEN HTTPException(500, s_result.fault)
                     ELSE QueryResponse(s_result.value)
    /\ b_pc' = "idle"
    /\ b_request' = b_request
    /\ UNCHANGED <<memVars, orchVars, agentVars, routerVars, smartVars>>

NextBackend ==
    \/ \E q \in SmartTasks, u \in Users : process_query_begin(q, u)
    \/ process_query_execute
    \/ \E r \in SmartReplies(enhanced_task) :
           s_pc = "super" /\ execute_decompose(enhanced_task, r) /\ UNCHANGED callerVars
    \/ execute_show /\ UNCHANGED callerVars
    \/ execute_parallel_begin /\ UNCHANGED callerVars
    \/ \E outcome \in AgentOutcomes :
           execute_parallel_step(outcome) /\ UNCHANGED <<agentVars, callerVars>>
    \/ execute_single_or_synthesis /\ UNCHANGED callerVars
    \/ \E r \in SynthesisReplies : synthesize_results(r) /\ UNCHANGED callerVars
    \/ Smart_store /\ UNCHANGED backendVars
    \/ _save_memory_load(Caller) /\ UNCHANGED callerVars
    \/ _save_memory_open(Caller) /\ UNCHANGED callerVars
    \/ _save_memory_dump(Caller) /\ UNCHANGED callerVars
    \/ Smart_return /\ UNCHANGED backendVars
    \/ process_query_respond

\* The service and one user's requests, one after the other.
SpecBackend == Init /\ [][NextBackend]_vars

\* -------------------------------------------------------------- properties

\* The list stored for identity u in file f; empty when the file is absent or
\* unreadable or has no entry for u.
Record(f, u) == IF f.state = "ok" /\ u \in DOMAIN f.data THEN f.data[u] ELSE <<>>

\* The last k entries of s.
LastK(s, k) == SubSeq(s, Len(s) - k + 1, Len(s))

\* a is b with some entries left out, the order kept.
RECURSIVE IsSubseq(_, _)
IsSubseq(a, b) ==
    IF a = <<>> THEN TRUE
    ELSE IF b = <<>> THEN FALSE
    ELSE IF Head(a) = Head(b) THEN IsSubseq(Tail(a), Tail(b))
    ELSE IsSubseq(a, Tail(b))

Entries(s) == {s[k] : k \in 1 .. Len(s)}

\* C1: in every instance the history is at least as long as the session and
\* the last len(session) entries of the history are the session, in order.
C1_SessionIsSuffixOfHistory ==
    \A i \in Insts :
        Live(i) =>
            /\ Len(long_term[i]) >= Len(short_term[i])
            /\ LastK(long_term[i], Len(short_term[i])) = short_term[i]

\* An instance that loaded a stored history and then added to its session.
C1_Witness ==
    \E i \in Insts :
        /\ pc[i] = "idle"
        /\ short_term[i] # <<>>
        /\ Len(long_term[i]) > Len(short_term[i])

\* C2: while clear_all was not called for an identity and the file is
\* readable, the stored history of the identity holds the session of every
\* instance of that identity, in the session's order.
C2_StoredHistoryHoldsEverySession ==
    \A i \in Insts :
        (pc[i] = "idle" /\ user[i] \notin cleared /\ file.state = "ok")
            => IsSubseq(short_term[i], Record(file, user[i]))

\* C3: once two instances of one identity whose add_interaction calls ran at
\* the same time have both finished, the stored record of the identity holds
\* every interaction either of them added.
C3_ConcurrentAppendsAllStored ==
    \A i \in Insts : \A j \in Insts \ {i} :
        ( /\ overlap
          /\ pc[i] = "idle" /\ pc[j] = "idle"
          /\ user[i] = user[j]
          /\ user[i] \notin cleared
          /\ file.state = "ok" )
            => Entries(short_term[i]) \cup Entries(short_term[j])
                   \subseteq Entries(Record(file, user[i]))

\* C4: a write-back for one identity never replaces the stored record of a
\* different identity by an older one: what it writes for every other
\* identity is what the file holds for it at that moment.
C4_WriteBackKeepsOtherIdentities ==
    [][ \A i \in Insts :
            (pc[i] = "save_write" /\ pc'[i] = "save_dump" /\ file.state = "ok")
                => \A u \in Users \ {user[i]} :
                       DictGet(data[i], u, <<>>) = Record(file, u) ]_vars

\* C5: for n >= 0, get_recent_history(n) returns exactly the most recent
\* min(n, len(session)) entries of the session.
C5_RecentHistoryIsLastMinN ==
    (last.op = "get_recent_history" /\ last.n >= 0)
        => ret = LastK(short_term[last.inst],
                       Min(last.n, Len(short_term[last.inst])))

\* C6 as stated: a get_recent_history(n) call that follows another one with
\* no add_interaction in between returns what the first returned, and changes
\* neither the session nor the history.
C6_SameResultWithoutAdd ==
    [][ ( /\ last'.op = "get_recent_history"
          /\ lastGet.noAdd
          /\ lastGet.inst = last'.inst
          /\ lastGet.n = last'.n )
            => ( /\ ret' = lastGet.res
                 /\ short_term' = short_term
                 /\ long_term' = long_term ) ]_vars

\* C6 as amended: the same, when neither add_interaction nor clear_session nor
\* clear_all came in between.
C6_SameResultWithoutChange ==
    [][ ( /\ last'.op = "get_recent_history"
          /\ lastGet.noMut
          /\ lastGet.inst = last'.inst
          /\ lastGet.n = last'.n )
            => ( /\ ret' = lastGet.res
                 /\ short_term' = short_term
                 /\ long_term' = long_term ) ]_vars

\* The second of two equal calls has returned a non-empty list.
C6_Witness ==
    /\ last.op = "get_recent_history"
    /\ lastGet.reps = 2
    /\ lastGet.res # <<>>
    /\ ret = lastGet.res

\* C7: get_context_string(n) of an instance whose session is empty returns the
\* sentinel, for every n, and does not raise.
C7_EmptySessionGivesSentinel ==
    (last.op = "get_context_string" /\ short_term[last.inst] = <<>>)
        => (ret = <<Sentinel>> /\ ~last.raised)

\* The sentinel returned for n = 0 by an instance whose history is not empty.
C7_Witness ==
    /\ last.op = "get_context_string"
    /\ last.n = 0
    /\ short_term[last.inst] = <<>>
    /\ long_term[last.inst] # <<>>
    /\ ret = <<Sentinel>>

\* C8: a clear_session call empties the session of its instance and leaves
\* every history, every other session and the file as they were.
C8_ClearSessionOnlySession ==
    [][ last'.op = "clear_session"
            => ( /\ short_term'[last'.inst] = <<>>
                 /\ \A j \in Insts \ {last'.inst} : short_term'[j] = short_term[j]
                 /\ long_term' = long_term
                 /\ file' = file ) ]_vars

\* clear_session has emptied a session whose entries are in the history and
\* in the file.
C8_Witness ==
    /\ last.op = "clear_session"
    /\ short_term[last.inst] = <<>>
    /\ long_term[last.inst] # <<>>
    /\ Record(file, user[last.inst]) # <<>>

C10_ConstructNeverFails ==
    last.op = "construct" =>
        /\ ~last.raised
        /\ pc[last.inst] = "idle"
        /\ short_term[last.inst] = <<>>
        /\ long_term[last.inst] = Record(file, user[last.inst])

\* An instance constructed over an unreadable file.
C10_Witness ==
    /\ last.op = "construct"
    /\ file.state = "corrupt"
    /\ pc[last.inst] = "idle"
    /\ long_term[last.inst] = <<>>

\* C11: memory persists across sessions: the history a newly constructed
\* instance loads for identity u is the list the last completed save of an
\* instance of u stored (the empty list after clear_all, nothing else empties
\* it).
C11_LoadedIsWhatWasStored ==
    (last.op = "construct" /\ ~last.raised)
        => long_term[last.inst] = stored[user[last.inst]]

\* ------------------------------------------- properties of the orchestrator

Range(s) == {s[i] : i \in DOMAIN s}

\* execute has returned its dict.
HasReturned == o_pc = "done" /\ o_result.status = "returned"

\* decompose_task has returned a value to execute.
Decomposed == o_pc # "idle" /\ o_result.fault # "decomposition call"

\* C12: a query classified as single-domain (needs_multiple_agents false)
\* gives a result whose agents_used has length 1 and whose answer is the
\* answer of that agent, verbatim (the answer of an agent that did not succeed
\* is left open here).
C12_SingleAgentAnswerVerbatim ==
    (HasReturned /\ ~o_result.value.needs_coordination)
        => LET used == o_result.value.agents_used
               res == o_result.value.agent_results
           IN  /\ Len(used) = 1
               /\ (used[1] \in DOMAIN res /\ res[used[1]].success)
                      => o_result.value.answer = res[used[1]].answer

\* C13: when the decomposition names more than one agent, the result is
\* coordinated and the synthesis was called exactly once, with a result of
\* every one of the agents named.
C13_SeveralAgentsAreSynthesized ==
    (HasReturned /\ Len(o_result.value.agents_used) > 1)
        => /\ o_result.value.needs_coordination
           /\ Len(synth_calls) = 1
           /\ Range(o_result.value.agents_used) \subseteq DOMAIN synth_calls[1]

\* The loop of execute_parallel has been entered.
AgentsStarted ==
    \/ o_pc \in {"agents", "synthesize"}
    \/ o_pc = "done" /\ o_result.fault \notin {"decomposition call", "TypeError", "KeyError"}

\* C14: the failure of one agent (an exception of its execute, or a
\* success:false result) is recorded as the failed result of that agent
\* only; every other agent of the subtasks is still executed and has its own
\* result, and the failure of an agent is never the fault that ends execute.
C14_AgentFailureIsolated ==
    /\ o_result.status = "raised" => o_result.fault # "agent failure"
    /\ AgentsStarted =>
         \A k \in 1 .. (Len(decomposition.subtasks) - Len(subtasks_left)) :
             LET item == decomposition.subtasks[k]
             IN  item.name \in KnownAgents =>
                   /\ item.name \in DOMAIN results
                   /\ \E i \in DOMAIN ran :
                        /\ ran[i].name = item.name
                        /\ results[item.name] =
                             IF ran[i].outcome = "raised" THEN AgentFault
                             ELSE AgentReturn(item.name, item.text, ran[i].outcome)

\* execute has returned although the first agent raised, and the agent after
\* it was executed and has its answer.
C14_Witness ==
    /\ HasReturned
    /\ Len(ran) = 2
    /\ ran[1].outcome = "raised"
    /\ ran[2].outcome = "answer"
    /\ o_result.value.agent_results[ran[2].name].success
    /\ ~o_result.value.agent_results[ran[1].name].success

\* C15: whatever the external calls give, execute ends by returning a result,
\* never by raising.
C15_ExecuteNeverRaises ==
    o_pc = "done" => o_result.status = "returned"

\* C17: the synthesis call is never made with results that are all failures.
C17_NoSynthesisOfFailuresOnly ==
    \A i \in DOMAIN synth_calls :
        \/ synth_calls[i] = EmptyDict
        \/ \E a \in DOMAIN synth_calls[i] : synth_calls[i][a].success

\* The plan invariants of the Decomposer: agents_needed is not empty and has
\* no duplicates, and every agent in it has exactly one entry in subtasks.
ValidPlan(d) ==
    /\ d.json = "object"
    /\ d.keys = PlanKeys
    /\ d.agents_needed # <<>>
    /\ NoDuplicates(d.agents_needed)
    /\ \A a \in Range(d.agents_needed) :
           Cardinality({k \in DOMAIN d.subtasks : d.subtasks[k].name = a}) = 1

\* C18: every plan decompose_task returns satisfies the plan invariants.
C18_PlanInvariants ==
    Decomposed => ValidPlan(decomposition)

\* The content of the decomposition call parses as the structure the prompt
\* asks for: a JSON object with the three keys.
ExpectedStructure(r) ==
    r.kind = "json" /\ r.value.json = "object" /\ r.value.keys = PlanKeys

\* C19: when the output of the decomposition call does not parse as the
\* expected structure, decompose_task returns the single-agent fallback plan
\* with the unmodified task, and no error of it reaches the caller.
C19_FallbackOnUnexpectedStructure ==
    (Decomposed /\ ~ExpectedStructure(reply))
        => /\ decomposition = Fallback(task)
           /\ o_result.fault \notin {"TypeError", "KeyError"}

\* C20: every agent named in agents_needed, in subtasks and in the agents_used
\* of the result is one of the known agents.
C20_OnlyKnownAgents ==
    Decomposed =>
        /\ Range(decomposition.agents_needed) \subseteq KnownAgents
        /\ {decomposition.subtasks[k].name : k \in DOMAIN decomposition.subtasks}
               \subseteq KnownAgents
        /\ HasReturned => Range(o_result.value.agents_used) \subseteq KnownAgents

\* C21: every agent named in agents_needed is executed exactly once, so the
\* agent_results of the result has an entry for every agent of agents_used.
C21_EveryNamedAgentRunsOnce ==
    HasReturned =>
        \A a \in Range(o_result.value.agents_used) :
            /\ Cardinality({i \in DOMAIN ran : ran[i].name = a}) = 1
            /\ a \in DOMAIN o_result.value.agent_results

\* The one agent needed did not succeed: it raised, returned success False,
\* or has no result.
SingleAgentFailed ==
    /\ Len(o_result.value.agents_used) = 1
    /\ LET a == o_result.value.agents_used[1]
           res == o_result.value.agent_results
       IN  a \in DOMAIN res => ~res[a].success

\* C22: when exactly one agent was needed and it did not succeed, execute
\* returns the fixed error text as the answer and the synthesis is not
\* called.
C22_SingleFailureGivesFixedAnswer ==
    (HasReturned /\ SingleAgentFailed)
        => /\ o_result.value.answer = CouldNotComplete
           /\ synth_calls = <<>>

\* C30: execute on the empty string does not raise and answers with an
\* explicit request for clarification (the text of the general branch of the
\* router is the one such text of the program).
C30_EmptyQueryAsksForClarification ==
    (o_pc = "done" /\ task = EmptyTask)
        => /\ o_result.status = "returned"
           /\ o_result.value.answer = GeneralAnswer

\* ---------------------------------------------------- properties of the agent

\* C16: an agent whose every reasoning step requests tool calls ends at the
\* iteration limit: after exactly max_iterations reasoning calls execute
\* returns success False with the error "Max iterations reached" and
\* iterations = max_iterations; no more than max_iterations reasoning calls
\* are ever made.
C16_ExhaustedAfterMaxIterations ==
    /\ llm_calls <= max_iterations
    /\ (a_pc = "done" /\ a_result.status = "returned" /\ tool_steps = llm_calls)
           => /\ ~a_result.value.success
              /\ a_result.value.error = "Max iterations reached"
              /\ a_result.value.iterations = max_iterations
              /\ llm_calls = max_iterations
    /\ (a_pc = "loop" /\ iteration = max_iterations) => llm_calls = max_iterations

\* An agent given MaxIter iterations has ended at the limit, every reasoning
\* step having requested tool calls, some of which were made.
C16_Witness ==
    /\ a_pc = "done"
    /\ a_result.status = "returned"
    /\ ~a_result.value.success
    /\ max_iterations = MaxIter
    /\ tool_steps = MaxIter
    /\ Len(a_result.value.trace) >= MaxIter

IsPrefix(s, t) == Len(s) <= Len(t) /\ SubSeq(t, 1, Len(s)) = s

\* The tool calls of the assistant messages of a conversation, in order.
RECURSIVE Issued(_)
Issued(msgs) ==
    IF msgs = <<>> THEN <<>>
    ELSE (IF Head(msgs).role = "assistant" THEN Head(msgs).tool_calls ELSE <<>>)
             \o Issued(Tail(msgs))

IsRegistered(c) == c.name \in TOOL_REGISTRY
IsToolMessage(m) == m.role = "tool"

\* The registered tool calls the loop has gone through so far, in the order
\* they were requested.
HandledCalls ==
    LET all == Issued(messages)
    IN  SelectSeq(SubSeq(all, 1, Len(all) - Len(tool_calls)), IsRegistered)

\* C25: a tool call whose name is not registered is passed over: nothing is
\* added to the trace or the conversation, execute does not end, and the loop
\* goes on with the next tool call of the message or, after the last one, with
\* the next iteration.
C25_UnknownToolIsSkipped ==
    [][(a_pc = "tools" /\ Head(tool_calls).name \notin TOOL_REGISTRY)
          => /\ execution_trace' = execution_trace
             /\ messages' = messages
             /\ a_result' = a_result
             /\ tool_calls' = Tail(tool_calls)
             /\ IF Tail(tool_calls) # <<>>
                THEN a_pc' = "tools" /\ iteration' = iteration
                ELSE a_pc' = "loop" /\ iteration' = iteration + 1]_vars

\* The trace is the list of the registered tool calls gone through, in
\* request order, each with its decoded arguments and its result.
TraceMatches ==
    LET calls == HandledCalls
    IN  execution_trace =
            [i \in DOMAIN calls |->
                TraceEntry(calls[i], json_loads(calls[i].arguments).value,
                           ToolResult(calls[i].name, json_loads(calls[i].arguments).value))]

\* C26: within one execute the trace only grows at its end, it holds the
\* registered tool calls that were made in the order of the reasoning steps
\* and, within a step, in request order, and it is the trace returned.
C26_TraceAppendOnlyInOrder ==
    /\ [][a_pc # "idle" => IsPrefix(execution_trace, execution_trace')]_vars
    /\ [](/\ a_result.status # "raised" => TraceMatches
          /\ a_result.status = "returned" => a_result.value.trace = execution_trace)

\* execute has returned a trace whose first two entries are the two different
\* registered tools one assistant message asked for, in that order.
C26_Witness ==
    /\ a_pc = "done"
    /\ a_result.status = "returned"
    /\ Len(a_result.value.trace) >= 2
    /\ Len(messages[3].tool_calls) = 2
    /\ a_result.value.trace[1].tool = messages[3].tool_calls[1].name
    /\ a_result.value.trace[2].tool = messages[3].tool_calls[2].name
    /\ a_result.value.trace[1].tool # a_result.value.trace[2].tool

\* The conversation starts with the system prompt and the task and holds the
\* result of every tool call of the trace, in order.
ContextKept ==
    LET fed == SelectSeq(messages, IsToolMessage)
    IN  /\ Len(messages) >= 2
        /\ messages[1] = SystemMessage
        /\ messages[2] = UserMessage(a_task)
        /\ [i \in DOMAIN fed |-> [name |-> fed[i].name, content |-> fed[i].content]]
               = [i \in DOMAIN execution_trace |->
                     [name |-> execution_trace[i].tool,
                      content |-> json_dumps(execution_trace[i].result)]]

\* C27: the conversation given to every reasoning step holds the task and
\* the result of every tool call made before, in order; within one execute it
\* only grows at its end.
C27_ContextIsPreserved ==
    [][a_pc # "idle" => IsPrefix(messages, messages') /\ ContextKept']_vars

\* A reasoning step is about to be made with two tool results in the
\* conversation.
C27_Witness ==
    /\ a_pc = "loop"
    /\ iteration < max_iterations
    /\ llm_calls >= 1
    /\ Len(SelectSeq(messages, IsToolMessage)) >= 2

\* C34: execute returns success exactly at the first reasoning step that
\* requests no tool call: every step before it requested some, the answer is
\* the content of that step, iterations is its 1-based index and lies in
\* 1 .. max_iterations, nothing is left to call and nothing happens after it;
\* a step without tool calls always ends execute that way.
C34_DoneAtFirstFinalStep ==
    /\ []((a_result.status = "returned" /\ a_result.value.success)
             => /\ a_pc = "done"
                /\ assistant_message.kind = "final"
                /\ tool_steps = llm_calls - 1
                /\ a_result.value.answer = assistant_message.content
                /\ a_result.value.iterations = llm_calls
                /\ 1 <= a_result.value.iterations
                /\ a_result.value.iterations <= max_iterations
                /\ tool_calls = <<>>)
    /\ [](assistant_message.kind = "final"
             => a_pc = "done" /\ a_result.status = "returned" /\ a_result.value.success)
    /\ [][a_pc = "done" => UNCHANGED agentVars]_vars

\* execute has returned success at its last allowed step, after steps that
\* made tool calls.
C34_Witness ==
    /\ a_pc = "done"
    /\ a_result.status = "returned"
    /\ a_result.value.success
    /\ a_result.value.iterations = MaxIter
    /\ max_iterations = MaxIter
    /\ Len(execution_trace) >= 1

\* C28: execute never ends by raising: neither for a failing tool call or
\* undecodable arguments nor for a failing reasoning call.
C28_AgentExecuteNeverRaises ==
    a_pc = "done" => a_result.status = "returned"

\* --------------------------------------------------- properties of the router

\* C23: for every output of the classification call route returns one tag of
\* {cfo, cro, general}, and general whenever the output is not a recognised
\* tag.
C23_RouteReturnsAKnownTag ==
    (r_pc # "idle" /\ r_reply.kind # "raise")
        => /\ agent_type.status = "returned"
           /\ agent_type.value \in RouterTags
           /\ (r_reply.kind = "none"
                 \/ str_upper(str_strip(r_reply.content))
                        \notin {<<"C", "F", "O">>, <<"C", "R", "O">>})
                  => agent_type.value = "general"

\* C24: when the classification call fails, route gives general and nothing
\* is raised.
C24_FailedClassificationGivesGeneral ==
    (r_pc # "idle" /\ r_reply.kind = "raise")
        => /\ agent_type = TagReturned("general")
           /\ r_result.status # "raised"

\* C35: every execute of the orchestrator ends; it makes one decomposition
\* call at most (no step after the call changes its reply), each agent it
\* executes makes at most max_iterations reasoning calls, and at most one
\* synthesis call is made.
C35_ExecuteTerminatesWithinBounds ==
    /\ <>(o_pc = "done")
    /\ [][o_pc # "idle" => (o_pc' # "idle" /\ reply' = reply)]_vars
    /\ [](llm_calls <= max_iterations /\ max_iterations <= DefaultMaxIterations)
    /\ [](Len(synth_calls) <= 1)

\* execute has ended after two agents, the first used up its iterations, and
\* the synthesis call.
C35_Witness ==
    /\ o_pc = "done"
    /\ Len(ran) = 2
    /\ ran[1].outcome = "exhausted"
    /\ Len(synth_calls) = 1
    /\ llm_calls >= 1

\* ------------------------------ properties of the context-aware orchestrator

\* C29: when the write of the interaction fails in the store (add_interaction
\* raises), SmartOrchestrator.execute still returns the result of the
\* orchestration: whenever the parent's execute returned a result, the
\* context-aware execute ends returning that result, never raising.
C29_StoreFailureIsRecovered ==
    (s_pc = "idle" /\ s_result.status # "none" /\ o_result.status = "returned")
        => s_result = o_result

\* The interaction the session ends with.
PriorInteraction == short_term[Caller][Len(short_term[Caller])]

\* The text holds the query of interaction x, then the excerpt of its
\* response, then the current question t.
ReferencesPrior(text, x, t) ==
    IsSubseq(<<x.query>> \o PySliceTo(x.response, ExcerptLen) \o <<CurrentQuestion, t>>,
             text)

C33_FaultTextIsNotLeaked ==
    (b_pc = "idle" /\ b_response.status_code # 0 /\ s_result.status = "raised")
        => b_response.detail # s_result.fault

\* C36: the interaction written for an execute call holds the task as the
\* caller gave it (not the text with the context), the answer of the result
\* execute returns and the agents_used of that result joined with ", ".
C36_StoredInteractionIsOriginalQuery ==
    /\ s_pc = "storing"
          => /\ PriorInteraction.query = s_task
             /\ PriorInteraction.response = o_result.value.answer
             /\ PriorInteraction.agent = str_join(", ", o_result.value.agents_used)
    /\ (s_pc = "idle" /\ s_result.status = "returned" /\ short_term[Caller] # <<>>)
          => /\ PriorInteraction.query = s_task
             /\ PriorInteraction.response = s_result.value.answer
             /\ PriorInteraction.agent = str_join(", ", s_result.value.agents_used)

\* execute has returned the result of two agents for a task that went
\* downstream with the context of the session, and the label is the two names.
C36_Witness ==
    /\ s_pc = "idle"
    /\ s_result.status = "returned"
    /\ Len(short_term[Caller]) = 2
    /\ s_use_context
    /\ enhanced_task # <<s_task>>
    /\ PriorInteraction.agent = "cfo, cro"

\* C37: within one execute the context is taken from the memory before the
\* orchestration begins and is not taken again, the memory is written only
\* after the orchestration has returned, and an orchestration that raises
\* leaves the session, the history and the memory file as they were.
C37_ReadBeforeWriteAfter ==
    /\ [][(s_pc = "super" /\ s_pc' # "storing")
             => /\ short_term' = short_term
                /\ long_term' = long_term
                /\ file' = file
                /\ enhanced_task' = enhanced_task]_vars
    /\ [][(s_pc = "super" /\ s_pc' = "storing")
             => o_pc = "done" /\ o_result.status = "returned"]_vars
    /\ [](s_pc = "super" => (o_pc = "idle" \/ task = enhanced_task))

\* An execute on a session that holds an interaction has ended with the
\* exception of its orchestration.
C37_Witness ==
    /\ s_pc = "idle"
    /\ Live(Caller)
    /\ short_term[Caller] # <<>>
    /\ s_result.status = "raised"
    /\ s_result = o_result

\* The last n entries of s, all of s when it has fewer.
LastAtMost(s, n) == SubSeq(s, IF Len(s) > n THEN Len(s) - n + 1 ELSE 1, Len(s))

C39_SerialSaveKeepsOtherIdentities ==
    /\ [][ \A i \in Insts :
               /\ (pc[i] = "save_read" /\ pc'[i] = "save_write")
                      => /\ DOMAIN data'[i] = DOMAIN file.data \cup {user[i]}
                         /\ \A u \in Users \ {user[i]} :
                                DictGet(data'[i], u, <<>>) = Record(file, u)
               /\ (pc[i] = "save_read" /\ pc'[i] = "idle") => file' = file
               /\ (pc[i] = "save_dump" /\ pc'[i] = "idle")
                      => /\ file'.state = "ok"
                         /\ \A u \in Users \ {user[i]} :
                                /\ Record(file', u) = stored[u]
                                /\ stored'[u] = stored[u] ]_vars
    /\ []((file.state = "ok" /\ \A i \in Insts : ~Saving(i))
              => \A u \in Users : Record(file, u) = stored[u])

\* An add_interaction or clear_all of one identity has ended on a file that
\* holds a record of another identity.
C39_Witness ==
    /\ last.op \in {"add_interaction", "clear_all"}
    /\ ~last.raised
    /\ file.state = "ok"
    /\ \E u \in Users \ {user[last.inst]} :
           /\ Record(file, u) # <<>>
           /\ Record(file, u) = stored[u]

====
